---- MODULE Spec2Model ----
(***************************************************************************)
(* Model of client/src/lib/aiService.ts: the chat adapter                  *)
(* (medicalChatService.sendMessage), the image analysis adapter            *)
(* (medicalAnalysisService.analyzeImage) and the voice adapter             *)
(* (voiceService.startListening / voiceService.speak), together with the   *)
(* module's top-level initialisation.                                      *)
(*                                                                         *)
(* Strings are sequences of one-character strings, so that trim(), split() *)
(* and toString() are computed and not assumed.  A promise is a record     *)
(* [state, value]; host events (remote replies, FileReader, recognition,   *)
(* synthesis, timers) are actions the environment takes.                   *)
(***************************************************************************)
EXTENDS Integers, Sequences, FiniteSets, TLC

\* ------------------------------------------------------------------ bounds
MaxTextLen == 2
MaxChatCalls == 2
MaxClock == 11
MaxImageCalls == 2
MaxListenCalls == 2
MaxRecEvents == 3
MaxSpeakCalls == 2
MaxTicks == 3

VARIABLES
    env,          \* the host: [apiKey, window, recognitionCtor, speechSynthesis]
    moduleState,  \* "unloaded" | "loaded" | "failed"  (top-level evaluation)
    moduleError,  \* what the top-level evaluation threw, or "none"
    recognition,  \* voiceService.recognition
    synthesis,    \* voiceService.synthesis
    now,          \* the host clock, Date.now(), in milliseconds
    chatCall,     \* sendMessage invocations
    chatWire,     \* outcome of model.generateContent(prompt) per invocation
    imageCall,    \* analyzeImage invocations
    imageRequest, \* what visionModel.generateContent received per invocation
    listenCall,   \* startListening invocations
    recLog,       \* events the recognition object has dispatched
    speakCall,    \* speak invocations
    utterance,    \* the SpeechSynthesisUtterance of each speak invocation
    timer,        \* the setTimeout of each speak invocation
    console       \* what each speak invocation wrote to the console

vars == << env, moduleState, moduleError, recognition, synthesis, now,
           chatCall, chatWire, imageCall, imageRequest, listenCall, recLog,
           speakCall, utterance, timer, console >>

moduleVars == << env, moduleState, moduleError, recognition, synthesis >>
chatVars == << chatCall, chatWire >>
imageVars == << imageCall, imageRequest >>
listenVars == << listenCall, recLog >>
speakVars == << speakCall, utterance, timer, console >>

\* ----------------------------------------------------------------- strings
Chars == {"a", " "}

RECURSIVE TextsUpTo(_)
TextsUpTo(n) ==
    IF n = 0 THEN { <<>> }
    ELSE LET shorter == TextsUpTo(n - 1)
         IN  shorter \cup { Append(s, ch) : s \in shorter, ch \in Chars }

Texts == TextsUpTo(MaxTextLen)

IsWhiteSpace(ch) == ch = " "

RECURSIVE TrimStart(_)
TrimStart(s) ==
    IF s = <<>> THEN s
    ELSE IF IsWhiteSpace(Head(s)) THEN TrimStart(Tail(s))
    ELSE s

RECURSIVE TrimEnd(_)
TrimEnd(s) ==
    IF s = <<>> THEN s
    ELSE IF IsWhiteSpace(s[Len(s)]) THEN TrimEnd(SubSeq(s, 1, Len(s) - 1))
    ELSE s

\* String.prototype.trim
Trim(s) == TrimEnd(TrimStart(s))

\* JavaScript truthiness of a string: only "" is falsy
Falsy(text) == text = <<>>

DigitChars == << "0", "1", "2", "3", "4", "5", "6", "7", "8", "9" >>

\* Number.prototype.toString of a non-negative integer
RECURSIVE NumToString(_)
NumToString(n) ==
    IF n < 10 THEN << DigitChars[n + 1] >>
    ELSE Append(NumToString(n \div 10), DigitChars[(n % 10) + 1])

\* ---------------------------------------------------------------- promises
Pending == [state |-> "pending", value |-> "none"]
Idle == [state |-> "idle", value |-> "none"]

\* resolve(v) of a Promise executor: the first settlement wins
PromiseResolve(p, v) ==
    IF p.state = "pending" THEN [state |-> "fulfilled", value |-> v] ELSE p

\* a reject that lacks the settled guard: a later rejection overwrites
PromiseRejectOverwrites(p, r) == [state |-> "rejected", value |-> r]

\* reject(r) of a Promise executor: the first settlement wins
PromiseReject(p, r) ==
    IF p.state = "pending" THEN [state |-> "rejected", value |-> r] ELSE p

Settled(p) == p.state \in {"fulfilled", "rejected"}

\* ------------------------------------------------------- module evaluation
Envs ==
    { e \in [apiKey : BOOLEAN, window : BOOLEAN,
             recognitionCtor : BOOLEAN, speechSynthesis : BOOLEAN] :
        ~e.window => (~e.recognitionCtor /\ ~e.speechSynthesis) }

\* typeof window !== 'undefined' ? new (window as any).webkitSpeechRecognition() : null
\* "TypeError" when the constructor is undefined (new undefined() throws)
NewRecognition(e) ==
    IF ~e.window THEN "null"
    ELSE IF e.recognitionCtor THEN "object"
    ELSE "TypeError"

\* typeof window !== 'undefined' ? window.speechSynthesis : null
GetSynthesis(e) ==
    IF ~e.window THEN "null"
    ELSE IF e.speechSynthesis THEN "object"
    ELSE "undefined"

\* voiceService.recognition: null, or the one recognition object with its
\* handler slots (the call whose closure is assigned; 0 when unassigned)
NullRecognition == [kind |-> "null", onresult |-> 0, onerror |-> 0, started |-> FALSE]
FreshRecognition == [kind |-> "object", onresult |-> 0, onerror |-> 0, started |-> FALSE]

\* Top-level evaluation of the module: the API key check, then the object
\* literal of voiceService.
LoadModule ==
    /\ moduleState = "unloaded"
    /\ IF ~env.apiKey
       THEN /\ moduleState' = "failed"
            /\ moduleError' = "Gemini API key is required"
            /\ UNCHANGED << recognition, synthesis >>
       ELSE IF NewRecognition(env) = "TypeError"
       THEN /\ moduleState' = "failed"
            /\ moduleError' = "TypeError"
            /\ UNCHANGED << recognition, synthesis >>
       ELSE /\ moduleState' = "loaded"
            /\ moduleError' = "none"
            /\ recognition' = IF NewRecognition(env) = "object"
                              THEN FreshRecognition ELSE NullRecognition
            /\ synthesis' = GetSynthesis(env)
    /\ UNCHANGED << env, now, chatVars, imageVars, listenVars, speakVars >>

\* -------------------------------------------------------------------- chat
ChatCalls == 1 .. MaxChatCalls
ChatInputs == Texts \ { <<>> }
Causes == { "network error" }

\* the prompt template around ${message}
ChatPrompt(message) == << "You are an AI medical assistant..." >> \o message
                       \o << "Please respond in a professional, caring manner." >>

\* throw new Error(`Failed to get AI response: ${error.message}`)
GenerationError(cause) ==
    [name |-> "Error", prefix |-> "Failed to get AI response: ", cause |-> cause]

\* the object literal returned by sendMessage
NewMessage(text, clock) ==
    [id |-> NumToString(clock), role |-> "assistant",
     content |-> Trim(text), timestamp |-> clock]

\* the code after `await model.generateContent(prompt)`, given its outcome
SendMessageOutcome(reply, clock) ==
    IF reply.kind = "throws" THEN PromiseReject(Pending, GenerationError(reply.cause))
    ELSE IF Falsy(reply.text)
    THEN PromiseReject(Pending, GenerationError("Empty response from AI"))
    ELSE PromiseResolve(Pending, NewMessage(reply.text, clock))

NoReply == [kind |-> "none"]

\* sendMessage(message) up to its first await
SendMessage(c, message) ==
    /\ moduleState = "loaded"
    /\ chatCall[c].promise.state = "idle"
    /\ \A d \in ChatCalls : d < c => chatCall[d].promise.state # "idle"
    /\ chatCall' = [chatCall EXCEPT ![c] =
            [promise |-> Pending, message |-> message,
             prompt |-> ChatPrompt(message), request |-> c]]
    /\ UNCHANGED << moduleVars, now, chatWire, imageVars, listenVars, speakVars >>

\* the generative service answers request c with a text
GenerateContentReturns(c, text) ==
    /\ chatCall[c].promise.state = "pending"
    /\ chatWire[c] = NoReply
    /\ chatWire' = [chatWire EXCEPT ![c] = [kind |-> "text", text |-> text]]
    /\ UNCHANGED << moduleVars, now, chatCall, imageVars, listenVars, speakVars >>

\* the call to the generative service throws (network failure, time-out)
GenerateContentThrows(c, cause) ==
    /\ chatCall[c].promise.state = "pending"
    /\ chatWire[c] = NoReply
    /\ chatWire' = [chatWire EXCEPT ![c] = [kind |-> "throws", cause |-> cause]]
    /\ UNCHANGED << moduleVars, now, chatCall, imageVars, listenVars, speakVars >>

\* the continuation of sendMessage after its await: lines 43-66
SendMessageResume(c) ==
    /\ chatCall[c].promise.state = "pending"
    /\ chatWire[chatCall[c].request] # NoReply
    /\ chatCall' = [chatCall EXCEPT ![c].promise =
            SendMessageOutcome(chatWire[chatCall[c].request], now)]
    /\ UNCHANGED << moduleVars, now, chatWire, imageVars, listenVars, speakVars >>

\* the host clock advances by one millisecond
ClockAdvance ==
    /\ now < MaxClock
    /\ now' = now + 1
    /\ UNCHANGED << moduleVars, chatVars, imageVars, listenVars, speakVars >>

\* ---------------------------------------------------------- image analysis
ImageCalls == 1 .. MaxImageCalls
Base64Payloads == { <<>>, << "Q" >>, << "Q", "k" >> }
Files == [name : {"scan.png"}, type : {"image/png"}, payload : Base64Payloads]

\* the data URL FileReader.readAsDataURL produces for a file
DataUrl(file) == << "data:", file.type, ";base64", "," >> \o file.payload

\* reader.result at loadend: the data URL after a successful read (an empty
\* file may also read as the bare "data:"), null after a failed read
ReaderResults(file) ==
    { [kind |-> "load", result |-> DataUrl(file)],
      [kind |-> "error", result |-> "null"] }
    \cup IF file.payload = <<>>
         THEN { [kind |-> "load", result |-> << "data:" >>] } ELSE {}

AllReaderResults == UNION { ReaderResults(f) : f \in Files }

RECURSIVE FirstIndexOf(_, _, _)
FirstIndexOf(s, sep, i) ==
    IF i > Len(s) THEN 0
    ELSE IF s[i] = sep THEN i
    ELSE FirstIndexOf(s, sep, i + 1)

\* String.prototype.split(sep)
RECURSIVE Split(_, _)
Split(s, sep) ==
    LET i == FirstIndexOf(s, sep, 1)
    IN  IF i = 0 THEN << s >>
        ELSE << SubSeq(s, 1, i - 1) >> \o Split(SubSeq(s, i + 1, Len(s)), sep)

\* arr[i] with JavaScript's zero-based index; undefined past the end
JsIndex(arr, i) == IF i + 1 <= Len(arr) THEN arr[i + 1] ELSE "undefined"

\* { inlineData: { data: data.split(',')[1], mimeType: file.type } }
ImageData(data, file) ==
    [data |-> JsIndex(Split(data, ","), 1), mimeType |-> file.type]

\* throw new Error(`Failed to analyze medical image: ${error.message}`)
AnalysisError(cause) ==
    [name |-> "Error", prefix |-> "Failed to analyze medical image: ",
     cause |-> cause]

NoRequest == [kind |-> "none"]

\* analyzeImage without its `if (!text)` check
AnalyzeImageOutcomeUnchecked(reply) ==
    IF reply.kind = "throws" THEN PromiseReject(Pending, AnalysisError(reply.cause))
    ELSE PromiseResolve(Pending, reply.text)

\* the code after `await visionModel.generateContent(...)`, given its outcome
AnalyzeImageOutcome(reply) ==
    IF reply.kind = "throws" THEN PromiseReject(Pending, AnalysisError(reply.cause))
    ELSE IF Falsy(reply.text)
    THEN PromiseReject(Pending, AnalysisError("Empty response from AI"))
    ELSE PromiseResolve(Pending, reply.text)

\* analyzeImage(file) up to its first await: the FileReader is started
AnalyzeImage(c, file) ==
    /\ moduleState = "loaded"
    /\ imageCall[c].promise.state = "idle"
    /\ \A d \in ImageCalls : d < c => imageCall[d].promise.state # "idle"
    /\ imageCall' = [imageCall EXCEPT ![c] =
            [promise |-> Pending, phase |-> "reading", file |-> file,
             read |-> "none"]]
    /\ UNCHANGED << moduleVars, now, chatVars, imageRequest, listenVars, speakVars >>

\* reader.onloadend fires with reader.result = r.result; the continuation
\* builds imageData and calls the generative service (lines 77-101)
ReaderLoadEnd(c, r) ==
    /\ imageCall[c].phase = "reading"
    /\ r \in ReaderResults(imageCall[c].file)
    /\ IF r.result = "null"
       THEN \* data.split on null throws a TypeError inside the try block
            /\ imageCall' = [imageCall EXCEPT
                    ![c].promise = PromiseReject(@, AnalysisError("TypeError")),
                    ![c].phase = "done",
                    ![c].read = r.kind]
            /\ UNCHANGED imageRequest
       ELSE /\ imageCall' = [imageCall EXCEPT
                    ![c].phase = "awaiting",
                    ![c].read = r.kind]
            /\ imageRequest' = [imageRequest EXCEPT ![c] =
                    [kind |-> "generateContent",
                     image |-> ImageData(r.result, imageCall[c].file)]]
    /\ UNCHANGED << moduleVars, now, chatVars, listenVars, speakVars >>

\* the generative service settles request c; analyzeImage resumes (102-120)
VisionSettles(c, reply) ==
    /\ imageCall[c].phase = "awaiting"
    /\ imageCall' = [imageCall EXCEPT
            ![c].promise = AnalyzeImageOutcome(reply),
            ![c].phase = "done"]
    /\ UNCHANGED << moduleVars, now, chatVars, imageRequest, listenVars, speakVars >>

VisionReplies ==
    { [kind |-> "text", text |-> t] : t \in Texts }
    \cup { [kind |-> "throws", cause |-> e] : e \in Causes }

IdleImage ==
    [promise |-> Idle, phase |-> "idle",
     file |-> [name |-> "", type |-> "", payload |-> <<>>], read |-> "none"]

\* ------------------------------------------------------ voice: recognition
ListenCalls == 1 .. MaxListenCalls

Alternative(t) == [transcript |-> t]

\* SpeechRecognitionEvent: results is a list of results, each a list of
\* alternatives
ResultEvents ==
    { [type |-> "result", results |-> << << Alternative("fever") >> >>],
      [type |-> "result",
       results |-> << << Alternative("cough"), Alternative("cuff") >>,
                      << Alternative("headache") >> >>] }

ErrorEvents == { [type |-> "error", error |-> "no-speech"] }

\* event.results[0][0].transcript
TopTranscript(event) == JsIndex(JsIndex(event.results, 0), 0).transcript

\* this.recognition.onresult = (event) => { resolve(transcript) }
ListenOnResult(p, event) == PromiseResolve(p, TopTranscript(event))

\* this.recognition.onerror = (event) => { reject(event.error) }
ListenOnError(p, event) == PromiseReject(p, event.error)

IdleListen == [promise |-> Idle, sessions |-> 0, before |-> 0]

\* startListening(): the executor runs synchronously.  The handlers of the
\* one recognition object are assigned, then start() is called; start() on a
\* recognition that is already started throws InvalidStateError, and an
\* exception in the executor rejects the promise.
StartListening(c) ==
    /\ moduleState = "loaded"
    /\ listenCall[c].promise.state = "idle"
    /\ \A d \in ListenCalls : d < c => listenCall[d].promise.state # "idle"
    /\ IF recognition.kind = "null"
       THEN /\ listenCall' = [listenCall EXCEPT ![c].promise =
                    PromiseReject(Pending, "Speech recognition not supported"),
                    ![c].before = Len(recLog)]
            /\ UNCHANGED recognition
       ELSE /\ recognition' = [recognition EXCEPT !.onresult = c, !.onerror = c,
                                                  !.started = TRUE]
            /\ listenCall' = [listenCall EXCEPT
                    ![c].promise = IF recognition.started
                                   THEN PromiseReject(Pending, "InvalidStateError")
                                   ELSE Pending,
                    ![c].sessions = IF recognition.started THEN 0 ELSE 1,
                    ![c].before = Len(recLog)]
    /\ UNCHANGED << env, moduleState, moduleError, synthesis, now,
                    chatVars, imageVars, recLog, speakVars >>

\* the recognition object dispatches a result event to its onresult handler
RecognitionResult(event) ==
    /\ recognition.kind = "object"
    /\ recognition.started
    /\ Len(recLog) < MaxRecEvents
    /\ listenCall' = [listenCall EXCEPT ![recognition.onresult].promise =
            ListenOnResult(@, event)]
    /\ recLog' = Append(recLog, event)
    /\ UNCHANGED << moduleVars, now, chatVars, imageVars, speakVars >>

\* the recognition object dispatches an error event to its onerror handler;
\* the session is over
RecognitionError(event) ==
    /\ recognition.kind = "object"
    /\ recognition.started
    /\ Len(recLog) < MaxRecEvents
    /\ listenCall' = [listenCall EXCEPT ![recognition.onerror].promise =
            ListenOnError(@, event)]
    /\ recLog' = Append(recLog, event)
    /\ recognition' = [recognition EXCEPT !.started = FALSE]
    /\ UNCHANGED << env, moduleState, moduleError, synthesis, now,
                    chatVars, imageVars, speakVars >>

\* the recognition session ends (end event; the adapter registers no handler)
RecognitionEnd ==
    /\ recognition.kind = "object"
    /\ recognition.started
    /\ recognition' = [recognition EXCEPT !.started = FALSE]
    /\ UNCHANGED << env, moduleState, moduleError, synthesis, now,
                    chatVars, imageVars, listenVars, speakVars >>

\* -------------------------------------------------------- voice: synthesis
SpeakCalls == 1 .. MaxSpeakCalls
SpeakTexts == { "hello" }
SpeakTimeoutMs == 10000
TickMs == SpeakTimeoutMs \div 2
Horizon == MaxTicks * TickMs

SynthesisErrors == { [type |-> "error", error |-> "synthesis-failed"] }

NoUtterance ==
    [text |-> "", onend |-> "none", onerror |-> "none", queued |-> FALSE,
     endFired |-> FALSE, errorFired |-> FALSE]

NoTimer == [state |-> "none", due |-> 0]

\* new SpeechSynthesisUtterance(text) and the handler assignments of speak,
\* in program order: onend (156), onerror (160), onend again (169); then
\* this.synthesis.speak(utterance)
SpeakUtterance(text) ==
    LET u0 == [NoUtterance EXCEPT !.text = text]
        u1 == [u0 EXCEPT !.onend = "resolve"]
        u2 == [u1 EXCEPT !.onerror = "reject"]
        u3 == [u2 EXCEPT !.onend = "clearTimeoutAndResolve"]
    IN  [u3 EXCEPT !.queued = TRUE]

\* setTimeout(..., 10000)
SetTimeout(clock) == [state |-> "armed", due |-> clock + SpeakTimeoutMs]

\* clearTimeout(timeout): cancels a timer that has not fired yet
ClearTimeout(t) == IF t.state = "armed" THEN [t EXCEPT !.state = "cleared"] ELSE t

\* the timer a call holds after its utterance's onend handler has run
OnEndTimer(handler, t) ==
    IF handler = "clearTimeoutAndResolve" THEN ClearTimeout(t) ELSE t

\* the promise after the utterance's onend handler has run: resolve()
OnEndPromise(handler, p) ==
    IF handler \in {"resolve", "clearTimeoutAndResolve"}
    THEN PromiseResolve(p, "undefined") ELSE p

\* an onerror handler that only logs and reports completion
OnErrorPromiseSwallows(handler, p, error) ==
    IF handler = "reject" THEN PromiseResolve(p, "undefined") ELSE p

\* the promise after utterance.onerror has run: reject(error)
OnErrorPromise(handler, p, error) ==
    IF handler = "reject" THEN PromiseReject(p, error) ELSE p

\* a timeout callback that only logs
OnTimeoutPromiseLogsOnly(p) == p

\* the promise after the setTimeout callback has run: resolve()
OnTimeoutPromise(p) == PromiseResolve(p, "undefined")

\* speak(text): the executor runs synchronously
Speak(c, text) ==
    /\ moduleState = "loaded"
    /\ speakCall[c].state = "idle"
    /\ \A d \in SpeakCalls : d < c => speakCall[d].state # "idle"
    /\ IF synthesis \in {"null", "undefined"}
       THEN /\ speakCall' = [speakCall EXCEPT ![c] =
                    PromiseReject(Pending, "Speech synthesis not supported")]
            /\ UNCHANGED << utterance, timer >>
       ELSE /\ speakCall' = [speakCall EXCEPT ![c] = Pending]
            /\ utterance' = [utterance EXCEPT ![c] = SpeakUtterance(text)]
            /\ timer' = [timer EXCEPT ![c] = SetTimeout(now)]
    /\ UNCHANGED << moduleVars, now, chatVars, imageVars, listenVars, console >>

\* the synthesis engine fires the utterance's end event
UtteranceEnd(c) ==
    /\ utterance[c].queued
    /\ ~utterance[c].endFired
    /\ utterance' = [utterance EXCEPT ![c].endFired = TRUE]
    /\ timer' = [timer EXCEPT ![c] = OnEndTimer(utterance[c].onend, @)]
    /\ console' = [console EXCEPT ![c] = Append(@, "Speech finished")]
    /\ speakCall' = [speakCall EXCEPT ![c] = OnEndPromise(utterance[c].onend, @)]
    /\ UNCHANGED << moduleVars, now, chatVars, imageVars, listenVars >>

\* the synthesis engine fires the utterance's error event
UtteranceError(c, error) ==
    /\ utterance[c].queued
    /\ ~utterance[c].errorFired
    /\ utterance' = [utterance EXCEPT ![c].errorFired = TRUE]
    /\ console' = [console EXCEPT ![c] = Append(@, "Speech error:")]
    /\ speakCall' = [speakCall EXCEPT ![c] =
            OnErrorPromise(utterance[c].onerror, @, error)]
    /\ UNCHANGED << moduleVars, now, chatVars, imageVars, listenVars, timer >>

\* the host runs the setTimeout callback once the delay has elapsed
TimeoutFires(c) ==
    /\ timer[c].state = "armed"
    /\ now >= timer[c].due
    /\ timer' = [timer EXCEPT ![c].state = "fired"]
    /\ console' = [console EXCEPT ![c] = Append(@, "Speech timeout fallback")]
    /\ speakCall' = [speakCall EXCEPT ![c] = OnTimeoutPromise(@)]
    /\ UNCHANGED << moduleVars, now, chatVars, imageVars, listenVars, utterance >>

ArmedDues == { timer[c].due : c \in { d \in SpeakCalls : timer[d].state = "armed" } }

Min(S) == CHOOSE x \in S : \A y \in S : x <= y

\* time passes, up to the next due timer: the host runs a timer's callback
\* when its delay has elapsed
TimePasses ==
    /\ now < Horizon
    /\ \A due \in ArmedDues : now < due
    /\ now' = Min(ArmedDues \cup { now + TickMs })
    /\ UNCHANGED << moduleVars, chatVars, imageVars, listenVars, speakVars >>

\* ------------------------------------------------------------------- init
IdleChat == [promise |-> Idle, message |-> <<>>, prompt |-> <<>>, request |-> 0]

Init ==
    /\ env \in Envs
    /\ moduleState = "unloaded"
    /\ moduleError = "none"
    /\ recognition = NullRecognition
    /\ synthesis = "null"
    /\ now = 9
    /\ chatCall = [c \in ChatCalls |-> IdleChat]
    /\ chatWire = [c \in ChatCalls |-> NoReply]
    /\ imageCall = [c \in ImageCalls |-> IdleImage]
    /\ imageRequest = [c \in ImageCalls |-> NoRequest]
    /\ listenCall = [c \in ListenCalls |-> IdleListen]
    /\ recLog = << >>
    /\ speakCall = [c \in SpeakCalls |-> Idle]
    /\ utterance = [c \in SpeakCalls |-> NoUtterance]
    /\ timer = [c \in SpeakCalls |-> NoTimer]
    /\ console = [c \in SpeakCalls |-> << >>]

NextChat ==
    \/ LoadModule
    \/ \E c \in ChatCalls, m \in ChatInputs : SendMessage(c, m)
    \/ \E c \in ChatCalls, t \in Texts : GenerateContentReturns(c, t)
    \/ \E c \in ChatCalls, e \in Causes : GenerateContentThrows(c, e)
    \/ \E c \in ChatCalls : SendMessageResume(c)
    \/ ClockAdvance

SpecChat == Init /\ [][NextChat]_vars

\* C1: every sendMessage call that resolves yields an assistant Message whose
\* trimmed content is non-empty; every other settled call failed with the
\* generation error.
C1_NeverEmptySuccess ==
    \A c \in ChatCalls :
        /\ chatCall[c].promise.state = "fulfilled" =>
              /\ chatCall[c].promise.value.role = "assistant"
              /\ Trim(chatCall[c].promise.value.content) # <<>>
              /\ chatCall[c].promise.value.content # <<>>
        /\ chatCall[c].promise.state = "rejected" =>
              chatCall[c].promise.value.prefix = "Failed to get AI response: "

\* C4: two sendMessage calls with different inputs that both succeed return
\* Messages with distinct ids, each carrying the trimmed reply to its own
\* request.
C4_DistinctIdsOwnContent ==
    \A c, d \in ChatCalls :
        ( /\ c # d
          /\ chatCall[c].promise.state = "fulfilled"
          /\ chatCall[d].promise.state = "fulfilled"
          /\ chatCall[c].message # chatCall[d].message )
        => /\ chatCall[c].promise.value.id # chatCall[d].promise.value.id
           /\ chatCall[c].promise.value.content = Trim(chatWire[c].text)
           /\ chatCall[d].promise.value.content = Trim(chatWire[d].text)
NextImage ==
    \/ LoadModule
    \/ \E c \in ImageCalls, f \in Files : AnalyzeImage(c, f)
    \/ \E c \in ImageCalls, r \in AllReaderResults : ReaderLoadEnd(c, r)
    \/ \E c \in ImageCalls, r \in VisionReplies : VisionSettles(c, r)

SpecImage == Init /\ [][NextImage]_vars

\* C6: analyzeImage resolves only with non-empty text and fails only with the
\* analysis error; it is pending only while the file is being read or the
\* remote call is outstanding; a failed read makes no remote call and fails
\* the call.
C6_AnalyzeImageOutcomes ==
    \A c \in ImageCalls :
        /\ imageCall[c].promise.state = "fulfilled" =>
              /\ imageCall[c].promise.value \in Texts
              /\ imageCall[c].promise.value # <<>>
        /\ imageCall[c].promise.state = "rejected" =>
              imageCall[c].promise.value.prefix = "Failed to analyze medical image: "
        /\ imageCall[c].promise.state = "pending" =>
              \/ imageCall[c].phase = "reading" /\ imageCall[c].read = "none"
              \/ /\ imageCall[c].phase = "awaiting"
                 /\ imageCall[c].read = "load"
                 /\ imageRequest[c] # NoRequest
        /\ imageCall[c].read = "error" =>
              /\ imageRequest[c] = NoRequest
              /\ imageCall[c].promise.state = "rejected"

\* a failed read has failed one call while another call resolved with text
C6_Witness ==
    \E c, d \in ImageCalls :
        /\ imageCall[c].read = "error"
        /\ imageCall[c].promise.state = "rejected"
        /\ imageCall[d].promise.state = "fulfilled"
        /\ imageCall[d].read = "load"
ListenActions ==
    \/ \E c \in ListenCalls : StartListening(c)
    \/ \E e \in ResultEvents : RecognitionResult(e)
    \/ \E e \in ErrorEvents : RecognitionError(e)
    \/ RecognitionEnd

SpeakActions ==
    \/ \E c \in SpeakCalls, t \in SpeakTexts : Speak(c, t)
    \/ \E c \in SpeakCalls : UtteranceEnd(c)
    \/ \E c \in SpeakCalls, e \in SynthesisErrors : UtteranceError(c, e)
    \/ \E c \in SpeakCalls : TimeoutFires(c)
    \/ TimePasses

NextListen == LoadModule \/ ListenActions
NextSpeak == LoadModule \/ SpeakActions
NextVoice == LoadModule \/ ListenActions \/ SpeakActions

SpecListen == Init /\ [][NextListen]_vars
SpecSpeak == Init /\ [][NextSpeak]_vars
SpecVoice == Init /\ [][NextVoice]_vars
\* --------------------------------------------------------- voice: claims
SpeakStarted(c) == synthesis = "object" /\ speakCall[c].state # "idle"

\* C2 (as stated): with synthesis present, every speak call is resolved by
\* the time its fallback timer has run, is never pending past the ceiling,
\* and never ends in an outcome other than resolved.
C2_AlwaysResolvedByCeiling ==
    \A c \in SpeakCalls : SpeakStarted(c) =>
        /\ speakCall[c].state \in {"pending", "fulfilled"}
        /\ speakCall[c].state = "pending" => now <= timer[c].due
        /\ timer[c].state = "fired" => speakCall[c].state = "fulfilled"

\* C2 (amended): with synthesis present, every speak call is settled by the
\* time its fallback timer has run and is never pending past the ceiling; it
\* is resolved, or rejected with the error event the engine fired.
C2_SettledByCeiling ==
    \A c \in SpeakCalls : SpeakStarted(c) =>
        /\ speakCall[c].state = "pending" =>
              /\ timer[c].state = "armed"
              /\ now <= timer[c].due
        /\ timer[c].state = "fired" => Settled(speakCall[c])
        /\ now > timer[c].due => Settled(speakCall[c])
        /\ speakCall[c].state = "fulfilled" => speakCall[c].value = "undefined"
        /\ speakCall[c].state = "rejected" =>
              /\ utterance[c].errorFired
              /\ speakCall[c].value \in SynthesisErrors

\* the engine fired no event at all and the timer resolved the call at the
\* ceiling
C2_Witness ==
    \E c \in SpeakCalls :
        /\ SpeakStarted(c)
        /\ console[c] = << "Speech timeout fallback" >>
        /\ ~utterance[c].endFired /\ ~utterance[c].errorFired
        /\ speakCall[c].state = "fulfilled"
        /\ now = timer[c].due

\* C3: in a host that lacks a capability, module initialisation succeeds and
\* the call is rejected at once with the fixed description: no recognition
\* session, no utterance, no timer.
C3_MissingCapabilityRejects ==
    /\ ( /\ env.apiKey
         /\ ~env.recognitionCtor \/ ~env.speechSynthesis
         /\ moduleState # "unloaded" ) => moduleState = "loaded"
    /\ \A c \in ListenCalls :
          (~env.recognitionCtor /\ listenCall[c].promise.state # "idle") =>
              /\ listenCall[c].promise.state = "rejected"
              /\ listenCall[c].promise.value = "Speech recognition not supported"
              /\ listenCall[c].sessions = 0
              /\ ~recognition.started
    /\ \A c \in SpeakCalls :
          (~env.speechSynthesis /\ speakCall[c].state # "idle") =>
              /\ speakCall[c].state = "rejected"
              /\ speakCall[c].value = "Speech synthesis not supported"
              /\ ~utterance[c].queued
              /\ timer[c].state = "none"

C7_PendingCallKeepsHandlers ==
    \A c \in ListenCalls :
        listenCall[c].promise.state = "pending" =>
            /\ recognition.onresult = c
            /\ recognition.onerror = c

\* the outcome a recognition event gives the call it settles
ListenEventOutcome(event) ==
    IF event.type = "result"
    THEN [state |-> "fulfilled", value |-> event.results[1][1].transcript]
    ELSE [state |-> "rejected", value |-> event.error]

\* C8: with recognition available, each startListening call starts exactly
\* one session and is settled by the first result or error event dispatched
\* after it started, and by nothing else.
C8_OneSessionFirstEventSettles ==
    \A c \in ListenCalls :
        (recognition.kind = "object" /\ listenCall[c].promise.state # "idle") =>
            /\ listenCall[c].sessions = 1
            /\ IF Len(recLog) > listenCall[c].before
               THEN listenCall[c].promise =
                        ListenEventOutcome(recLog[listenCall[c].before + 1])
               ELSE listenCall[c].promise.state = "pending"

\* C9: a speak call is rejected exactly when the error event was the first of
\* the three events handled; when the timer came first the call is resolved,
\* whatever follows.
C9_ErrorRejectsIffFirst ==
    \A c \in SpeakCalls : SpeakStarted(c) =>
        /\ speakCall[c].state = "rejected" <=>
              (console[c] # << >> /\ console[c][1] = "Speech error:")
        /\ (console[c] # << >> /\ console[c][1] = "Speech timeout fallback") =>
              speakCall[c].state = "fulfilled"
        /\ (console[c] # << >> /\ console[c][1] = "Speech finished") =>
              speakCall[c].state = "fulfilled"

\* the error event arrived after the timer had resolved the call
C9_Witness ==
    \E c \in SpeakCalls :
        /\ SpeakStarted(c)
        /\ console[c] = << "Speech timeout fallback", "Speech error:" >>
        /\ speakCall[c].state = "fulfilled"

\* C10: a settled speak call has no pending fallback timer, and once the end
\* event has been handled the timer is not pending.
C10_NoTimerAfterSettlement ==
    \A c \in SpeakCalls : SpeakStarted(c) =>
        /\ Settled(speakCall[c]) => timer[c].state # "armed"
        /\ utterance[c].endFired => timer[c].state # "armed"
====
